---- MODULE Spec2Model ----
(***************************************************************************)
(* The local HTTP control plane of src/extension.ts: the request handler   *)
(* given to http.createServer (preconditions, routing, the six routes and  *)
(* the top-level catch), the cline.sendMessageExternal command, and the    *)
(* ClineProvider collaborator the handler drives.  One connection carries  *)
(* one request; a handler runs from one await to the next as one step of   *)
(* the single-threaded event loop, and steps of different connections      *)
(* interleave.  The variable out holds the exchange answered by the last   *)
(* step: the request, what the handler did for it, and the response.       *)
(* The URI handler (handleUri) is modelled the same way, with uout for the  *)
(* callback that ended with the last step.  Spec is the HTTP listener,     *)
(* SpecUri the URI handler, SpecLive the listener with the fairness of the *)
(* awaited ClineProvider and command calls.                                *)
(***************************************************************************)
EXTENDS Integers, Sequences, FiniteSets, TLC

\* Number of requests (connections) accepted in one behaviour.
MaxRequests == 2

Conns == 1..MaxRequests

(***************************************************************************)
(* Values                                                                  *)
(***************************************************************************)
\* A header the request does not carry reads as undefined.
Undefined == "<undefined>"

API_VERSION == "1.0"

\* config.get("token") when the setting is unset (falsy)
ConfiguredToken == ""
DefaultToken == "MY_SECRET_123"
token == IF ConfiguredToken = "" THEN DefaultToken ELSE ConfiguredToken

\* No ClineProvider instance (getVisibleInstance() returned undefined).
NoInstance == "<none>"
Instances == {"sidebar", "tab"}

Methods == {"GET", "POST", "OPTIONS", "DELETE"}
Urls == {"/v1/messages", "/v1/messages?x=1", "/v1/mode/plan", "/v1/mode/act",
         "/v1/buttons/primary", "/v1/buttons/secondary", "/v1/unknown"}
\* content-type header values: absent, or a string given as its fragments
Hdr(parts) == [defined |-> TRUE, parts |-> parts]
NoHdr == [defined |-> FALSE, parts |-> <<>>]
ContentTypes == {NoHdr, Hdr(<<"application/json", "; charset=utf-8">>), Hdr(<<"text/plain">>)}
Tokens == {Undefined, DefaultToken, "wrong"}

Requests == [method : Methods, url : Urls, ct : ContentTypes, tok : Tokens]
NoReq == [method |-> "-", url |-> "-", ct |-> NoHdr, tok |-> Undefined]

Modes == {"plan", "act"}
Extras == {"e0", "e1"}
\* the persisted chatSettings object: mode and the fields next to it
ChatSettings == [mode : Modes, extra : Extras]
NoSettings == [mode |-> "-", extra |-> "-"]

(***************************************************************************)
(* Request bodies and JSON.parse                                           *)
(***************************************************************************)
P(ch) == [k |-> "punct", v |-> ch]
Str(s) == [k |-> "str", v |-> s]
Num(n) == [k |-> "num", v |-> n]
Null == [k |-> "null", v |-> "null"]
Bare(w) == [k |-> "word", v |-> w]

\* body texts, as token sequences
Bodies == { <<>>,
            <<P("{"), Bare("bad")>>,
            <<Null>>,
            <<Num("5")>>,
            <<P("["), P("]")>>,
            <<P("{"), P("}")>>,
            <<P("{"), Str("message"), P(":"), Str(""), P("}")>>,
            <<P("{"), Str("message"), P(":"), Str("hi"), P("}")>>,
            <<P("{"), Str("text"), P(":"), Str("hi"), P("}")>> }
NoBody == <<Bare("<unread>")>>

JUndefined == [t |-> "undefined", v |-> "", key |-> ""]
JLit(tok) == [t |-> IF tok.k = "str" THEN "string" ELSE IF tok.k = "num" THEN "number" ELSE "null",
              v |-> tok.v, key |-> ""]
\* an object with at most one property: key = "" means no property
JObject(key, val) == [t |-> "object", v |-> val, key |-> key]
JArray == [t |-> "array", v |-> "", key |-> ""]

IsLiteral(tok) == tok.k \in {"str", "num", "null"}

\* JSON.parse(body): ok = FALSE is a thrown SyntaxError
JSONParse(b) ==
    IF Len(b) = 1 /\ IsLiteral(b[1])
    THEN [ok |-> TRUE, value |-> JLit(b[1])]
    ELSE IF Len(b) = 2 /\ b[1] = P("{") /\ b[2] = P("}")
    THEN [ok |-> TRUE, value |-> JObject("", JUndefined)]
    ELSE IF Len(b) = 2 /\ b[1] = P("[") /\ b[2] = P("]")
    THEN [ok |-> TRUE, value |-> JArray]
    ELSE IF Len(b) = 5 /\ b[1] = P("{") /\ b[2].k = "str" /\ b[3] = P(":")
            /\ IsLiteral(b[4]) /\ b[5] = P("}")
    THEN [ok |-> TRUE, value |-> JObject(b[2].v, JLit(b[4]))]
    ELSE [ok |-> FALSE, value |-> JUndefined]

\* const { message } = value: destructuring null throws a TypeError,
\* a primitive or an array has no such property
DestructureMessage(value) ==
    IF value.t = "null" THEN [threw |-> TRUE, message |-> JUndefined]
    ELSE IF value.t = "object" /\ value.key = "message"
    THEN [threw |-> FALSE, message |-> value.v]
    ELSE [threw |-> FALSE, message |-> JUndefined]

\* a check for an absent field only, which lets an empty message through
MessageAbsent(m) == m.t = "undefined"

\* !message
MessageMissing(m) ==
    \/ m.t \in {"undefined", "null"}
    \/ m.t = "string" /\ m.v = ""
    \/ m.t = "number" /\ m.v = "0"

(***************************************************************************)
(* Responses                                                               *)
(***************************************************************************)
SetHeader(h, name, val) == {p \in h : p[1] # name} \cup {<<name, val>>}

\* res.setHeader(...) x 5, before any routing decision
CorsHeaders ==
    { <<"Access-Control-Allow-Origin", "*">>,
      <<"Access-Control-Allow-Methods", "GET, POST, OPTIONS">>,
      <<"Access-Control-Allow-Headers", "Content-Type, x-cli-token">>,
      <<"Access-Control-Expose-Headers", "x-api-version">>,
      <<"x-api-version", API_VERSION>> }

EmptyBody == [empty |-> TRUE]
NoRes == [status |-> 0, headers |-> {}, body |-> EmptyBody]
HasData(b) == "data" \in DOMAIN b
HasError(b) == "error" \in DOMAIN b

\* a preflight answer written before the CORS headers are set
PreflightBare(headers) == [status |-> 204, headers |-> {}, body |-> EmptyBody]

\* res.writeHead(204); res.end()
Preflight(headers) == [status |-> 204, headers |-> headers, body |-> EmptyBody]

\* sendResponse(res, status, response)
sendResponse(headers, status, response) ==
    [status |-> status,
     headers |-> SetHeader(SetHeader(headers, "Content-Type", "application/json"),
                           "x-api-version", API_VERSION),
     body |-> response]

\* a success envelope that loses its payload
SuccessWithoutData(data) == [success |-> TRUE]

Failure(code, message) == [success |-> FALSE, error |-> [code |-> code, message |-> message]]
Success(data) == [success |-> TRUE, data |-> data]

(***************************************************************************)
(* Preconditions and routing                                               *)
(***************************************************************************)
Includes(parts, s) == \E i \in 1..Len(parts) : parts[i] = s

\* req.headers["content-type"]?.includes("application/json")
IsJsonContentType(ct) == ct.defined /\ Includes(ct.parts, "application/json")

\* req.method === "POST" && !req.headers["content-type"]?.includes(...)
InvalidContentType(r) == r.method = "POST" /\ ~IsJsonContentType(r.ct)

\* a handler that lets a request without the header through
AuthFailedUnlessMissing(r) == r.tok # token /\ r.tok # Undefined

\* a token check that lets every GET through
AuthFailedOnWrites(r) == r.method # "GET" /\ r.tok # token

\* req.headers["x-cli-token"] !== token
AuthFailed(r) == r.tok # token

\* a handler that checks the token before the content type
PreconditionAuthFirst(r) ==
    IF r.method = "OPTIONS" THEN "preflight"
    ELSE IF r.tok # token THEN "auth"
    ELSE IF r.method = "POST" /\ ~IsJsonContentType(r.ct) THEN "content_type"
    ELSE "pass"

\* the checks made before the route handlers, in the order of the code
Precondition(r) ==
    IF r.method = "OPTIONS" THEN "preflight"
    ELSE IF InvalidContentType(r) THEN "content_type"
    ELSE IF AuthFailed(r) THEN "auth"
    ELSE "pass"

\* a route table that matches the paths and forgets the methods
RouteOfAnyMethod(r) ==
    IF r.url = "/v1/messages" THEN "getMessages"
    ELSE IF r.url = "/v1/mode/plan" \/ r.url = "/v1/mode/act" THEN "mode"
    ELSE IF r.url = "/v1/buttons/primary" \/ r.url = "/v1/buttons/secondary" THEN "button"
    ELSE "notFound"

\* the if / else-if chain of the route handlers
RouteOf(r) ==
    IF r.method = "POST" /\ r.url = "/v1/messages" THEN "postMessage"
    ELSE IF r.method = "GET" /\ r.url = "/v1/messages" THEN "getMessages"
    ELSE IF r.method = "POST" /\ (r.url = "/v1/mode/plan" \/ r.url = "/v1/mode/act") THEN "mode"
    ELSE IF r.method = "POST" /\ (r.url = "/v1/buttons/primary" \/ r.url = "/v1/buttons/secondary")
    THEN "button"
    ELSE "notFound"

\* const mode = req.url === "/v1/mode/plan" ? "plan" : "act"
ModeOf(url) == IF url = "/v1/mode/plan" THEN "plan" ELSE "act"

\* a write of the settings as read, without the new mode
WithoutMode(settings, mode) == settings

\* a write of the other mode
WithModeToggled(settings, mode) ==
    [settings EXCEPT !.mode = IF mode = "plan" THEN "act" ELSE "plan"]

\* { ...chatSettings, mode }
WithMode(settings, mode) == [settings EXCEPT !.mode = mode]

\* a button route that takes every click for the primary button
InvokeAlwaysPrimary(url) == "primaryButtonClick"

\* isPrimary ? "primaryButtonClick" : "secondaryButtonClick"
InvokeOf(url) == IF url = "/v1/buttons/primary" THEN "primaryButtonClick" ELSE "secondaryButtonClick"
ButtonMessage(url) ==
    IF url = "/v1/buttons/primary" THEN "Primary button clicked successfully"
    ELSE "Secondary button clicked successfully"

\* a route that goes on without a visible instance
NoProviderIgnored(p) == FALSE

\* if (!visibleProvider)
NoProvider(p) == p = NoInstance

\* the instance the cline.sendMessageExternal command posts to
ExternalSendTarget(visibleProvider) == "sidebar"

Unauthorized == Failure("UNAUTHORIZED", "Invalid or missing authentication token")
InvalidContentTypeError == Failure("INVALID_CONTENT_TYPE", "Content-Type must be application/json")
InvalidRequest == Failure("INVALID_REQUEST", "Message field is required")
ServiceUnavailable == Failure("SERVICE_UNAVAILABLE", "No active Cline instance available")
NotFound == Failure("NOT_FOUND", "Requested endpoint not found")
CommandExecutionError == Failure("COMMAND_EXECUTION_ERROR", "Failed to execute command")
ButtonClickError == Failure("BUTTON_CLICK_ERROR", "Failed to click button")
\* a top-level catch that blames the request
CaughtAsInvalidRequest == Failure("INVALID_REQUEST", "An unexpected error occurred")

\* the top-level catch
InternalServerError == Failure("INTERNAL_SERVER_ERROR", "An unexpected error occurred")

(***************************************************************************)
(* State                                                                   *)
(***************************************************************************)
VARIABLES
    pc,            \* pc[c]: where connection c's handler is suspended
    req,           \* req[c]: the request line and headers
    loc,           \* loc[c]: the handler's locals
    ops,           \* ops[c]: the ClineProvider / command calls made for c so far
    out,           \* the exchange answered by the last step, if it answered one
    visible,       \* the instance ClineProvider.getVisibleInstance() returns
    chatSettings,  \* globalState "chatSettings"
    lastWrite,     \* who wrote chatSettings last: the url of a mode request, or "-"
    upc,           \* upc[k]: where the handleUri call for callback k is suspended
    uri,           \* uri[k]: the uri of callback k
    uloc,          \* uloc[k]: the visibleProvider handleUri holds for callback k
    ucalls,        \* ucalls[k]: the calls handleUri made for k so far
    uout,          \* the callback whose handleUri call ended with the last step
    authNonce      \* the auth state the ClineProvider expects back, if any

vars == <<pc, req, loc, ops, out, visible, chatSettings, lastWrite,
          upc, uri, uloc, ucalls, uout, authNonce>>

NoLoc == [body |-> NoBody, visibleProvider |-> NoInstance, message |-> JUndefined,
          mode |-> "-", chatSettings |-> NoSettings, sawWrite |-> "-"]

Op(name, inst, arg, ok) == [op |-> name, inst |-> inst, arg |-> arg, ok |-> ok]
NoArg == [none |-> TRUE]

NoOut == [conn |-> 0, req |-> NoReq, loc |-> NoLoc, ops |-> <<>>, res |-> NoRes]

\* Number of URI callbacks delivered in one behaviour.
MaxCallbacks == 2
Callbacks == 1..MaxCallbacks

\* query.get(name) of a parameter the query does not carry
NullParam == "<null>"
Param(name, value) == <<name, value>>
Paths == {"/openrouter", "/auth", "/other"}
\* decoded query strings, as lists of parameters
Queries == { <<>>,
             <<Param("code", "c1")>>,
             <<Param("code", "")>>,
             <<Param("token", "T"), Param("state", "s1")>>,
             <<Param("token", "T"), Param("state", "s2")>>,
             <<Param("token", "T")>>,
             <<Param("state", "s1")>>,
             <<Param("token", ""), Param("state", "s1")>>,
             <<Param("code", "c1"), Param("token", "T"), Param("state", "s1")>> }
Uris == [path : Paths, query : Queries]
NoUri == [path |-> "-", query |-> <<>>]

UCall(name, inst, arg, result) == [op |-> name, inst |-> inst, arg |-> arg, result |-> result]
NoUOut == [id |-> 0, uri |-> NoUri, inst |-> NoInstance, calls |-> <<>>]

\* a step of the HTTP listener leaves the URI handler alone, and conversely
HttpStep == uout' = NoUOut /\ UNCHANGED <<upc, uri, uloc, ucalls, authNonce>>
UriStep == out' = NoOut /\ UNCHANGED <<pc, req, loc, ops, chatSettings, lastWrite>>

Init ==
    /\ pc = [c \in Conns |-> "new"]
    /\ req = [c \in Conns |-> NoReq]
    /\ loc = [c \in Conns |-> NoLoc]
    /\ ops = [c \in Conns |-> <<>>]
    /\ out = NoOut
    /\ visible = NoInstance
    /\ chatSettings \in ChatSettings
    /\ lastWrite = "-"
    /\ upc = [k \in Callbacks |-> "new"]
    /\ uri = [k \in Callbacks |-> NoUri]
    /\ uloc = [k \in Callbacks |-> NoInstance]
    /\ ucalls = [k \in Callbacks |-> <<>>]
    /\ uout = NoUOut
    /\ authNonce = NullParam

ReturnWithoutResponse(c, r, l, response, calls) ==
    /\ pc' = [pc EXCEPT ![c] = "returned"]
    /\ out' = NoOut
    /\ req' = [req EXCEPT ![c] = r]
    /\ loc' = [loc EXCEPT ![c] = l]
    /\ ops' = [ops EXCEPT ![c] = ops[c] \o calls]

\* the handler of c, serving r with locals l, answers and returns
Respond(c, r, l, response, calls) ==
    /\ pc' = [pc EXCEPT ![c] = "done"]
    /\ out' = [conn |-> c, req |-> r, loc |-> l, ops |-> ops[c] \o calls, res |-> response]
    /\ req' = [req EXCEPT ![c] = NoReq]
    /\ loc' = [loc EXCEPT ![c] = NoLoc]
    /\ ops' = [ops EXCEPT ![c] = <<>>]

\* the handler of c, serving r with locals l, suspends at an await
Suspend(c, r, l, at, calls) ==
    /\ pc' = [pc EXCEPT ![c] = at]
    /\ out' = NoOut
    /\ req' = [req EXCEPT ![c] = r]
    /\ loc' = [loc EXCEPT ![c] = l]
    /\ ops' = [ops EXCEPT ![c] = ops[c] \o calls]

\* ClineProvider.getVisibleInstance()
getVisibleInstance == visible
Lookup == Op("getVisibleInstance", getVisibleInstance, NoArg, TRUE)

(***************************************************************************)
(* The request handler, up to its first await                              *)
(***************************************************************************)
\* Connections are numbered in their order of arrival.
Arrive(c, r) ==
    /\ pc[c] = "new"
    /\ HttpStep
    /\ \A d \in Conns : d < c => pc[d] # "new"
    /\ UNCHANGED <<visible, chatSettings, lastWrite>>
    /\ LET pre == Precondition(r)
           route == RouteOf(r)
           visibleProvider == getVisibleInstance
       IN  IF pre = "preflight"
           THEN Respond(c, r, NoLoc, Preflight(CorsHeaders), <<>>)
           ELSE IF pre = "content_type"
           THEN Respond(c, r, NoLoc, sendResponse(CorsHeaders, 415, InvalidContentTypeError), <<>>)
           ELSE IF pre = "auth"
           THEN Respond(c, r, NoLoc, sendResponse(CorsHeaders, 401, Unauthorized), <<>>)
           ELSE IF route = "postMessage"
           THEN Suspend(c, r, NoLoc, "body", <<>>)
           ELSE IF route = "notFound"
           THEN Respond(c, r, NoLoc, sendResponse(CorsHeaders, 404, NotFound), <<>>)
           ELSE IF NoProvider(visibleProvider)
           THEN Respond(c, r, NoLoc, sendResponse(CorsHeaders, 503, ServiceUnavailable), <<Lookup>>)
           ELSE Suspend(c, r,
                        [NoLoc EXCEPT !.visibleProvider = visibleProvider,
                                      !.mode = IF route = "mode" THEN ModeOf(r.url) ELSE "-"],
                        CASE route = "getMessages" -> "snapshot"
                        []   route = "mode" -> "getState"
                        []   route = "button" -> "invoke",
                        <<Lookup>>)

(***************************************************************************)
(* POST /v1/messages                                                       *)
(***************************************************************************)
\* req "end": the body is complete; the handler runs on to executeCommand
BodyEnd(c, b) ==
    /\ pc[c] = "body"
    /\ HttpStep
    /\ UNCHANGED <<visible, chatSettings, lastWrite>>
    /\ LET parsed == JSONParse(b)
           d == DestructureMessage(parsed.value)
           visibleProvider == getVisibleInstance
           l == [loc[c] EXCEPT !.body = b]
       IN  IF ~parsed.ok \/ d.threw
           THEN Respond(c, req[c], l, sendResponse(CorsHeaders, 500, InternalServerError), <<>>)
           ELSE IF MessageMissing(d.message)
           THEN Respond(c, req[c], l, sendResponse(CorsHeaders, 400, InvalidRequest), <<>>)
           ELSE IF NoProvider(visibleProvider)
           THEN Respond(c, req[c], [l EXCEPT !.message = d.message],
                        sendResponse(CorsHeaders, 503, ServiceUnavailable), <<Lookup>>)
           ELSE Suspend(c, req[c],
                        [l EXCEPT !.visibleProvider = visibleProvider, !.message = d.message],
                        "cmd", <<Lookup>>)

\* req "error": the promise awaited for the body rejects
BodyError(c) ==
    /\ pc[c] = "body"
    /\ HttpStep
    /\ Respond(c, req[c], loc[c], sendResponse(CorsHeaders, 500, InternalServerError), <<>>)
    /\ UNCHANGED <<visible, chatSettings, lastWrite>>

\* the cline.sendMessageExternal command: its handler posts to the webview and
\* returns without awaiting the post
sendMessageExternal(visibleProvider, text, delivered) ==
    <<Op("postMessageToWebview", ExternalSendTarget(visibleProvider),
         [type |-> "externalSend", text |-> text], delivered)>>

\* await vscode.commands.executeCommand("cline.sendMessageExternal", message):
\* either the command handler runs and executeCommand resolves, whether the
\* post it started is delivered or rejects, or executeCommand itself rejects
CommandDone(c) ==
    /\ pc[c] = "cmd"
    /\ HttpStep
    /\ UNCHANGED <<visible, chatSettings, lastWrite>>
    /\ \/ \E delivered \in BOOLEAN :
            Respond(c, req[c], loc[c],
                    sendResponse(CorsHeaders, 200, Success([message |-> "Message sent successfully"])),
                    <<Op("executeCommand", "-", NoArg, TRUE)>>
                    \o sendMessageExternal(loc[c].visibleProvider, loc[c].message.v, delivered))
       \/ Respond(c, req[c], loc[c], sendResponse(CorsHeaders, 500, CommandExecutionError),
                  <<Op("executeCommand", "-", NoArg, FALSE)>>)

(***************************************************************************)
(* GET /v1/messages                                                        *)
(***************************************************************************)
\* visibleProvider.getStateToPostToWebview()
getStateToPostToWebview == [chatSettings |-> chatSettings]

SnapshotDone(c) ==
    /\ pc[c] = "snapshot"
    /\ HttpStep
    /\ UNCHANGED <<visible, chatSettings, lastWrite>>
    /\ \/ Respond(c, req[c], [loc[c] EXCEPT !.sawWrite = lastWrite],
                  sendResponse(CorsHeaders, 200, Success(getStateToPostToWebview)),
                  <<Op("getStateToPostToWebview", loc[c].visibleProvider, NoArg, TRUE)>>)
       \/ Respond(c, req[c], loc[c], sendResponse(CorsHeaders, 500, InternalServerError),
                  <<Op("getStateToPostToWebview", loc[c].visibleProvider, NoArg, FALSE)>>)

(***************************************************************************)
(* POST /v1/mode/plan, POST /v1/mode/act                                   *)
(***************************************************************************)
\* const { chatSettings } = await visibleProvider.getState()
GetStateDone(c) ==
    /\ pc[c] = "getState"
    /\ HttpStep
    /\ UNCHANGED <<visible, chatSettings, lastWrite>>
    /\ \/ Suspend(c, req[c], [loc[c] EXCEPT !.chatSettings = chatSettings], "update",
                  <<Op("getState", loc[c].visibleProvider, NoArg, TRUE)>>)
       \/ Respond(c, req[c], loc[c], sendResponse(CorsHeaders, 500, InternalServerError),
                  <<Op("getState", loc[c].visibleProvider, NoArg, FALSE)>>)

\* await visibleProvider.updateGlobalState("chatSettings", { ...chatSettings, mode })
UpdateDone(c) ==
    /\ pc[c] = "update"
    /\ HttpStep
    /\ UNCHANGED visible
    /\ LET value == WithMode(loc[c].chatSettings, loc[c].mode)
       IN  \/ /\ chatSettings' = value
              /\ lastWrite' = req[c].url
              /\ Suspend(c, req[c], loc[c], "post",
                         <<Op("updateGlobalState", loc[c].visibleProvider, value, TRUE)>>)
           \/ /\ UNCHANGED <<chatSettings, lastWrite>>
              /\ Respond(c, req[c], loc[c], sendResponse(CorsHeaders, 500, InternalServerError),
                         <<Op("updateGlobalState", loc[c].visibleProvider, value, FALSE)>>)

\* await visibleProvider.postStateToWebview(), then the 200
PostStateDone(c) ==
    /\ pc[c] = "post"
    /\ HttpStep
    /\ UNCHANGED <<visible, chatSettings, lastWrite>>
    /\ \/ Respond(c, req[c], loc[c], sendResponse(CorsHeaders, 200, Success([mode |-> loc[c].mode])),
                  <<Op("postStateToWebview", loc[c].visibleProvider, getStateToPostToWebview, TRUE)>>)
       \/ Respond(c, req[c], loc[c], sendResponse(CorsHeaders, 500, InternalServerError),
                  <<Op("postStateToWebview", loc[c].visibleProvider, NoArg, FALSE)>>)

(***************************************************************************)
(* POST /v1/buttons/primary, POST /v1/buttons/secondary                    *)
(***************************************************************************)
\* await visibleProvider.postMessageToWebview({ type: "invoke", invoke })
InvokeDone(c) ==
    /\ pc[c] = "invoke"
    /\ HttpStep
    /\ UNCHANGED <<visible, chatSettings, lastWrite>>
    /\ LET msg == [type |-> "invoke", invoke |-> InvokeOf(req[c].url)]
       IN  \/ Respond(c, req[c], loc[c],
                      sendResponse(CorsHeaders, 200, Success([message |-> ButtonMessage(req[c].url)])),
                      <<Op("postMessageToWebview", loc[c].visibleProvider, msg, TRUE)>>)
           \/ Respond(c, req[c], loc[c], sendResponse(CorsHeaders, 500, ButtonClickError),
                      <<Op("postMessageToWebview", loc[c].visibleProvider, msg, FALSE)>>)

(***************************************************************************)
(* The rest of the extension host                                          *)
(***************************************************************************)
\* a webview (the sidebar, or a tab opened by openClineInNewTab) is shown or hidden
SetVisible(v) ==
    /\ v # visible
    /\ visible' = v
    /\ out' = NoOut
    /\ uout' = NoUOut
    /\ UNCHANGED <<pc, req, loc, ops, chatSettings, lastWrite>>
    /\ UNCHANGED <<upc, uri, uloc, ucalls, authNonce>>

\* the user changes a chat setting in the webview
UserUpdateSettings(s) ==
    /\ s # chatSettings
    /\ chatSettings' = s
    /\ lastWrite' = "-"
    /\ out' = NoOut
    /\ HttpStep
    /\ UNCHANGED <<pc, req, loc, ops, visible>>

(***************************************************************************)
(* handleUri: the callback router                                          *)
(***************************************************************************)
RECURSIVE Get(_, _)
\* query.get(name): the value of the first parameter called name, or null
Get(query, name) ==
    IF query = <<>> THEN NullParam
    ELSE IF Head(query)[1] = name THEN Head(query)[2]
    ELSE Get(Tail(query), name)

\* if (code), if (token): null and the empty string are falsy
Truthy(value) == value # NullParam /\ value # ""

NoVisibleProviderIgnored(visibleProvider) == FALSE

\* if (!visibleProvider) return
NoVisibleProvider(visibleProvider) == visibleProvider = NoInstance

CaseOfDefaultAsOpenRouter(path) ==
    IF path = "/auth" THEN "auth" ELSE "openrouter"

\* switch (path)
CaseOf(path) ==
    IF path = "/openrouter" THEN "openrouter"
    ELSE IF path = "/auth" THEN "auth"
    ELSE "default"

StateAlwaysAccepted(valid) == FALSE

\* if (!(await visibleProvider.validateAuthState(state)))
StateRejected(valid) == ~valid

\* ClineProvider.validateAuthState: the state is the one the provider issued
validateAuthState(state) == state # NullParam /\ state = authNonce

\* handleUri returns: the callback and all it did become uout
Finish(k, u, visibleProvider, calls) ==
    /\ upc' = [upc EXCEPT ![k] = "done"]
    /\ uri' = [uri EXCEPT ![k] = NoUri]
    /\ uloc' = [uloc EXCEPT ![k] = NoInstance]
    /\ ucalls' = [ucalls EXCEPT ![k] = <<>>]
    /\ uout' = [id |-> k, uri |-> u, inst |-> visibleProvider, calls |-> calls]

\* handleUri is suspended at an await
Await(k, u, visibleProvider, at, calls) ==
    /\ upc' = [upc EXCEPT ![k] = at]
    /\ uri' = [uri EXCEPT ![k] = u]
    /\ uloc' = [uloc EXCEPT ![k] = visibleProvider]
    /\ ucalls' = [ucalls EXCEPT ![k] = calls]
    /\ uout' = NoUOut

\* a URI callback arrives: handleUri runs to its first await or to its end
HandleUri(k, u) ==
    /\ upc[k] = "new"
    /\ \A j \in Callbacks : j < k => upc[j] # "new"
    /\ UriStep
    /\ UNCHANGED <<visible, authNonce>>
    /\ LET visibleProvider == getVisibleInstance
       IN  IF NoVisibleProvider(visibleProvider)
           THEN Finish(k, u, visibleProvider, <<>>)
           ELSE IF CaseOf(u.path) = "openrouter"
           THEN IF Truthy(Get(u.query, "code"))
                THEN Await(k, u, visibleProvider, "openrouter", <<>>)
                ELSE Finish(k, u, visibleProvider, <<>>)
           ELSE IF CaseOf(u.path) = "auth"
           THEN Await(k, u, visibleProvider, "validate", <<>>)
           ELSE Finish(k, u, visibleProvider, <<>>)

\* await visibleProvider.handleOpenRouterCallback(code) settles
OpenRouterCallbackDone(k) ==
    /\ upc[k] = "openrouter"
    /\ UriStep
    /\ UNCHANGED <<visible, authNonce>>
    /\ \E result \in {"resolved", "rejected"} :
           Finish(k, uri[k], uloc[k],
                  Append(ucalls[k], UCall("handleOpenRouterCallback", uloc[k],
                                          Get(uri[k].query, "code"), result)))

\* await visibleProvider.validateAuthState(state) settles
ValidateDone(k) ==
    /\ upc[k] = "validate"
    /\ UriStep
    /\ UNCHANGED <<visible, authNonce>>
    /\ LET state == Get(uri[k].query, "state")
           authToken == Get(uri[k].query, "token")
           valid == validateAuthState(state)
           validated == Append(ucalls[k], UCall("validateAuthState", uloc[k], state,
                                                IF valid THEN "true" ELSE "false"))
       IN  \/ IF StateRejected(valid)
              THEN Finish(k, uri[k], uloc[k],
                          Append(validated, UCall("showErrorMessage", "window",
                                                  "Invalid auth state", "resolved")))
              ELSE IF Truthy(authToken)
              THEN Await(k, uri[k], uloc[k], "auth", validated)
              ELSE Finish(k, uri[k], uloc[k], validated)
           \/ Finish(k, uri[k], uloc[k],
                     Append(ucalls[k], UCall("validateAuthState", uloc[k], state, "rejected")))

\* await visibleProvider.handleAuthCallback(token) settles
AuthCallbackDone(k) ==
    /\ upc[k] = "auth"
    /\ UriStep
    /\ UNCHANGED <<visible, authNonce>>
    /\ \E result \in {"resolved", "rejected"} :
           Finish(k, uri[k], uloc[k],
                  Append(ucalls[k], UCall("handleAuthCallback", uloc[k],
                                          Get(uri[k].query, "token"), result)))

\* the ClineProvider issues an auth state before the redirect, or forgets it
IssueAuthState(nonce) ==
    /\ nonce # authNonce
    /\ authNonce' = nonce
    /\ uout' = NoUOut
    /\ UriStep
    /\ UNCHANGED <<visible, upc, uri, uloc, ucalls>>

Next ==
    \/ \E c \in Conns, r \in Requests : Arrive(c, r)
    \/ \E c \in Conns, b \in Bodies : BodyEnd(c, b)
    \/ \E c \in Conns : BodyError(c)
    \/ \E c \in Conns : CommandDone(c)
    \/ \E c \in Conns : SnapshotDone(c)
    \/ \E c \in Conns : GetStateDone(c)
    \/ \E c \in Conns : UpdateDone(c)
    \/ \E c \in Conns : PostStateDone(c)
    \/ \E c \in Conns : InvokeDone(c)
    \/ \E v \in Instances \cup {NoInstance} : SetVisible(v)
    \/ \E s \in ChatSettings : UserUpdateSettings(s)

Spec == Init /\ [][Next]_vars

\* an awaited command or ClineProvider call of the handler of c settles
Settle(c) ==
    \/ CommandDone(c)
    \/ SnapshotDone(c)
    \/ GetStateDone(c)
    \/ UpdateDone(c)
    \/ PostStateDone(c)
    \/ InvokeDone(c)

\* Every awaited call settles.  The end of a request body is the client's
\* doing (req.on("end")), so BodyEnd and BodyError carry no fairness.
SpecLive == Init /\ [][Next]_vars /\ \A c \in Conns : WF_vars(Settle(c))

NextUri ==
    \/ \E k \in Callbacks, u \in Uris : HandleUri(k, u)
    \/ \E k \in Callbacks : OpenRouterCallbackDone(k)
    \/ \E k \in Callbacks : ValidateDone(k)
    \/ \E k \in Callbacks : AuthCallbackDone(k)
    \/ \E nonce \in {"s1", NullParam} : IssueAuthState(nonce)
    \/ \E v \in Instances \cup {NoInstance} : SetVisible(v)

SpecUri == Init /\ [][NextUri]_vars

(***************************************************************************)
(* Properties                                                              *)
(***************************************************************************)
\* the last step answered an exchange
Answered == out.conn # 0

Status == out.res.status
ErrorCode == IF HasError(out.res.body) THEN out.res.body.error.code ELSE "-"
Is(method, url) == out.req.method = method /\ out.req.url = url

\* the request says its body is JSON
SaysJson == out.req.ct.defined /\ \E i \in 1..Len(out.req.ct.parts) : out.req.ct.parts[i] = "application/json"
\* the request carries the configured token
HasToken == out.req.tok = token

SixRoutes ==
    { <<"POST", "/v1/messages">>, <<"GET", "/v1/messages">>,
      <<"POST", "/v1/mode/plan">>, <<"POST", "/v1/mode/act">>,
      <<"POST", "/v1/buttons/primary">>, <<"POST", "/v1/buttons/secondary">> }
OnRoute == <<out.req.method, out.req.url>> \in SixRoutes

HeaderNames == {p[1] : p \in out.res.headers}
CorsNames == {"Access-Control-Allow-Origin", "Access-Control-Allow-Methods",
              "Access-Control-Allow-Headers", "Access-Control-Expose-Headers"}

\* C1, as stated: every request, of any method and path, whose x-cli-token is
\* missing or wrong (and whose content-type is JSON when it is a POST) is
\* answered 401 UNAUTHORIZED.
C1_AnyMethodUnauthorized ==
    (Answered /\ ~HasToken /\ (out.req.method = "POST" => SaysJson))
        => (Status = 401 /\ ErrorCode = "UNAUTHORIZED")

\* C1, amended: every request of a method other than OPTIONS whose x-cli-token
\* is missing or wrong (and whose content-type is JSON when it is a POST) is
\* answered 401 UNAUTHORIZED, whatever its path.
C1_Unauthorized ==
    (Answered /\ out.req.method # "OPTIONS" /\ ~HasToken /\ (out.req.method = "POST" => SaysJson))
        => (Status = 401 /\ ErrorCode = "UNAUTHORIZED" /\ out.ops = <<>>)

C1_Witness ==
    /\ Answered /\ Is("GET", "/v1/messages") /\ out.req.tok = Undefined
    /\ Status = 401

\* C2: a POST whose content-type does not contain application/json is answered
\* 415 INVALID_CONTENT_TYPE whatever its token and path, never 401: the
\* content-type check comes before the token check.
C2_ContentTypeBeforeAuth ==
    (Answered /\ out.req.method = "POST" /\ ~SaysJson)
        => (Status = 415 /\ ErrorCode = "INVALID_CONTENT_TYPE")

C2_Witness ==
    /\ Answered /\ Is("POST", "/v1/unknown") /\ ~SaysJson /\ out.req.tok = "wrong"
    /\ Status = 415

\* C3: an OPTIONS request is answered 204 with the CORS headers and
\* x-api-version, whatever its path, content-type and token, and the handler
\* neither looks the visible instance up nor calls it.
C3_Preflight ==
    (Answered /\ out.req.method = "OPTIONS")
        => /\ Status = 204
           /\ CorsNames \subseteq HeaderNames
           /\ <<"x-api-version", "1.0">> \in out.res.headers
           /\ out.ops = <<>>

C3_Witness ==
    /\ Answered /\ Is("OPTIONS", "/v1/mode/plan") /\ out.req.tok = "wrong" /\ ~SaysJson
    /\ Status = 204

\* C4, as stated: a request whose (method, path) is none of the six routes is
\* answered 404 NOT_FOUND for any token and any content-type.
C4_UnknownRouteAlways404 ==
    (Answered /\ ~OnRoute) => (Status = 404 /\ ErrorCode = "NOT_FOUND")

\* C4, amended: a request whose (method, path) is none of the six routes is
\* answered 404 NOT_FOUND when it passes the preconditions: its method is not
\* OPTIONS, it carries the configured token and, if it is a POST, a JSON
\* content-type.
C4_UnknownRoute ==
    (Answered /\ ~OnRoute /\ out.req.method # "OPTIONS" /\ HasToken
        /\ (out.req.method = "POST" => SaysJson))
        => (Status = 404 /\ ErrorCode = "NOT_FOUND" /\ out.ops = <<>>)

C4_Witness ==
    /\ Answered /\ Is("DELETE", "/v1/messages") /\ HasToken
    /\ Status = 404

\* the calls of one kind made for the exchange just answered
Calls(name) == SelectSeq(out.ops, LAMBDA o : o.op = name)

\* the body read is {"message": <a non-empty string>}
CarriesMessage ==
    /\ Len(out.loc.body) = 5
    /\ out.loc.body[1] = P("{") /\ out.loc.body[2] = Str("message") /\ out.loc.body[3] = P(":")
    /\ out.loc.body[4].k = "str" /\ out.loc.body[4].v # ""
    /\ out.loc.body[5] = P("}")

\* the request passes the three preconditions
PassesPreconditions ==
    out.req.method # "OPTIONS" /\ HasToken /\ (out.req.method = "POST" => SaysJson)

\* C5: an authenticated POST /v1/messages carrying a non-empty message m and
\* answered 200 has delivered m exactly once, to the instance the registry
\* lookup returned (sidebar or tab), and to no other instance.
C5_ForwardedToVisible ==
    (Answered /\ Is("POST", "/v1/messages") /\ PassesPreconditions /\ CarriesMessage /\ Status = 200)
        => /\ Len(Calls("postMessageToWebview")) = 1
           /\ Calls("postMessageToWebview")[1].inst = out.loc.visibleProvider
           /\ Calls("postMessageToWebview")[1].arg.text = out.loc.body[4].v

\* C6: an authenticated request to one of the six routes (POST /v1/messages
\* with a non-empty message) looks the visible instance up first, and if there
\* is none it is answered 503 SERVICE_UNAVAILABLE with no call on any instance,
\* no command executed and no settings written.
C6_NoSession ==
    (Answered /\ OnRoute /\ PassesPreconditions
        /\ (Is("POST", "/v1/messages") => CarriesMessage))
        => /\ Len(out.ops) >= 1
           /\ out.ops[1].op = "getVisibleInstance"
           /\ out.ops[1].inst = NoInstance
                => (Status = 503 /\ ErrorCode = "SERVICE_UNAVAILABLE" /\ Len(out.ops) = 1)

C6_Witness ==
    /\ Answered /\ Is("POST", "/v1/messages") /\ PassesPreconditions /\ CarriesMessage
    /\ out.ops = <<Op("getVisibleInstance", NoInstance, NoArg, TRUE)>>
    /\ Status = 503

\* JSON objects without a message, or with an empty one
NoMessageBodies ==
    { <<P("{"), P("}")>>,
      <<P("{"), Str("text"), P(":"), Str("hi"), P("}")>>,
      <<P("{"), Str("message"), P(":"), Str(""), P("}")>> }

\* C7: an authenticated JSON POST /v1/messages whose body is an object with no
\* message, or an empty one, is answered 400 INVALID_REQUEST before any lookup
\* of the visible instance, and nothing is forwarded.
C7_MissingMessage ==
    (Answered /\ Is("POST", "/v1/messages") /\ PassesPreconditions
        /\ out.loc.body \in NoMessageBodies)
        => (Status = 400 /\ ErrorCode = "INVALID_REQUEST" /\ out.ops = <<>>)

C7_Witness ==
    /\ Answered /\ Is("POST", "/v1/messages") /\ PassesPreconditions
    /\ out.loc.body = <<P("{"), Str("message"), P(":"), Str(""), P("}")>>
    /\ visible = "tab"
    /\ Status = 400

\* bodies that are not JSON, or JSON that is not an object
NotAnObjectBodies ==
    { <<>>, <<P("{"), Bare("bad")>>, <<Null>>, <<Num("5")>>, <<P("["), P("]")>> }

\* C8: an authenticated JSON POST /v1/messages whose body does not parse as
\* JSON, or does not parse to an object, is answered 400 INVALID_REQUEST.
C8_BadBodyIs400 ==
    (Answered /\ Is("POST", "/v1/messages") /\ PassesPreconditions
        /\ out.loc.body \in NotAnObjectBodies)
        => (Status = 400 /\ ErrorCode = "INVALID_REQUEST")

\* C9: a POST /v1/messages whose delivery to the webview failed (the post
\* rejected) is answered 500 COMMAND_EXECUTION_ERROR, never 200.
C9_FailedDeliveryIs500 ==
    (Answered /\ Is("POST", "/v1/messages")
        /\ \E i \in 1..Len(out.ops) : out.ops[i].op = "postMessageToWebview" /\ ~out.ops[i].ok)
        => (Status = 500 /\ ErrorCode = "COMMAND_EXECUTION_ERROR")

ModeFor(url) == IF url = "/v1/mode/plan" THEN "plan" ELSE "act"

\* C10: a POST /v1/mode/plan (resp. act) answered 200 has written plan (resp.
\* act) as the persisted chatSettings mode, once, has broadcast the state once
\* and answers data.mode = plan (resp. act); as long as that write is the last
\* one the persisted mode is that mode, and a GET /v1/messages that reads the
\* state then returns a snapshot with that mode.
C10_ModeChange ==
    /\ lastWrite # "-" => chatSettings.mode = ModeFor(lastWrite)
    /\ (Answered /\ out.req.method = "POST" /\ out.req.url \in {"/v1/mode/plan", "/v1/mode/act"}
            /\ Status = 200)
        => /\ HasData(out.res.body)
           /\ out.res.body.data = [mode |-> ModeFor(out.req.url)]
           /\ Len(Calls("updateGlobalState")) = 1
           /\ Calls("updateGlobalState")[1].ok
           /\ Calls("updateGlobalState")[1].arg.mode = ModeFor(out.req.url)
           /\ Len(Calls("postStateToWebview")) = 1
    /\ (Answered /\ Is("GET", "/v1/messages") /\ Status = 200 /\ out.loc.sawWrite # "-")
        => /\ HasData(out.res.body)
           /\ out.res.body.data.chatSettings.mode = ModeFor(out.loc.sawWrite)

C10_Witness ==
    /\ Answered /\ out.conn = 2 /\ pc[1] = "done"
    /\ Is("GET", "/v1/messages") /\ Status = 200
    /\ out.loc.sawWrite = "/v1/mode/plan"
    /\ out.res.body.data.chatSettings.mode = "plan"

ButtonUrls == {"/v1/buttons/primary", "/v1/buttons/secondary"}
KindFor(url) == IF url = "/v1/buttons/primary" THEN "primaryButtonClick" ELSE "secondaryButtonClick"

\* C11: an authenticated POST /v1/buttons/primary (resp. secondary) that found
\* a visible instance has posted exactly one invoke event of kind
\* primaryButtonClick (resp. secondaryButtonClick) to that instance, and is
\* answered 200 if the post succeeded and 500 BUTTON_CLICK_ERROR if it failed.
C11_ButtonClick ==
    (Answered /\ out.req.method = "POST" /\ out.req.url \in ButtonUrls /\ PassesPreconditions
        /\ out.loc.visibleProvider # NoInstance)
        => /\ Len(Calls("postMessageToWebview")) = 1
           /\ Calls("postMessageToWebview")[1].inst = out.loc.visibleProvider
           /\ Calls("postMessageToWebview")[1].arg = [type |-> "invoke", invoke |-> KindFor(out.req.url)]
           /\ Len(out.ops) = 2
           /\ Calls("postMessageToWebview")[1].ok => Status = 200
           /\ ~Calls("postMessageToWebview")[1].ok
                => (Status = 500 /\ ErrorCode = "BUTTON_CLICK_ERROR")

C11_Witness ==
    /\ Answered /\ Is("POST", "/v1/buttons/secondary") /\ PassesPreconditions
    /\ out.loc.visibleProvider = "tab"
    /\ Len(out.ops) = 2 /\ ~out.ops[2].ok
    /\ Status = 500 /\ ErrorCode = "BUTTON_CLICK_ERROR"

\* a call the routes await outside any try block of their own
UncaughtCalls == {"getStateToPostToWebview", "getState", "updateGlobalState", "postStateToWebview"}

\* the exchange just answered met a failure no route handles itself: the
\* request stream failed while the body was read, or an awaited call failed
UnhandledFailure ==
    \/ Is("POST", "/v1/messages") /\ PassesPreconditions /\ out.loc.body = NoBody
    \/ \E i \in 1..Len(out.ops) : out.ops[i].op \in UncaughtCalls /\ ~out.ops[i].ok

\* C12: a failure no route handles itself (request stream error, failed
\* snapshot fetch, settings read, settings update or re-broadcast) is answered
\* 500 INTERNAL_SERVER_ERROR, and the listener then still takes the next
\* request.
C12_TopLevelCatch ==
    (Answered /\ UnhandledFailure)
        => /\ Status = 500 /\ ErrorCode = "INTERNAL_SERVER_ERROR"
           /\ (\E c \in Conns : pc[c] = "new") => ENABLED (\E c \in Conns, r \in Requests : Arrive(c, r))

C12_Witness ==
    /\ Answered /\ Is("POST", "/v1/messages") /\ out.loc.body = NoBody
    /\ Status = 500 /\ ErrorCode = "INTERNAL_SERVER_ERROR"
    /\ pc[2] = "new"

\* C13: every response to a request other than OPTIONS carries x-api-version
\* and exactly one of data and error: success is true exactly when data is
\* present and error absent, false exactly when error, with code and message,
\* is present and data absent.
C13_Envelope ==
    (Answered /\ out.req.method # "OPTIONS")
        => /\ <<"x-api-version", "1.0">> \in out.res.headers
           /\ "success" \in DOMAIN out.res.body
           /\ HasData(out.res.body) # HasError(out.res.body)
           /\ out.res.body.success = HasData(out.res.body)
           /\ HasError(out.res.body) => DOMAIN out.res.body.error = {"code", "message"}

C13_Witness ==
    /\ Answered /\ Is("GET", "/v1/messages") /\ Status = 200
    /\ out.res.body.success /\ HasData(out.res.body) /\ ~HasError(out.res.body)

(***************************************************************************)
(* Properties of the callback router, under SpecUri                        *)
(***************************************************************************)
\* handleUri returned for a callback with the last step
Returned == uout.id # 0
\* a Session was visible when the callback arrived
SessionVisible == uout.inst # NoInstance
UCalls(name) == SelectSeq(uout.calls, LAMBDA call : call.op = name)
UInFlight(k) == upc[k] \notin {"new", "done"}

\* C14: for a callback to /auth while a Session is visible, the state is
\* validated first and on the instance found at arrival; if the validator
\* answers false the auth callback is not invoked and one error message is
\* shown; if it answers true and the token is present the auth callback is
\* invoked exactly once with that token on the instance that validated; and
\* handleUri never waits for the auth callback without a successful validation.
C14_AuthCallback ==
    /\ \A k \in Callbacks : upc[k] = "auth" =>
           /\ Len(ucalls[k]) = 1
           /\ ucalls[k][1] = UCall("validateAuthState", uloc[k], Get(uri[k].query, "state"), "true")
           /\ Truthy(Get(uri[k].query, "token"))
    /\ (Returned /\ SessionVisible /\ uout.uri.path = "/auth") =>
           LET state == Get(uout.uri.query, "state")
               authToken == Get(uout.uri.query, "token")
               first == uout.calls[1]
           IN  /\ Len(uout.calls) >= 1
               /\ first.op = "validateAuthState" /\ first.inst = uout.inst /\ first.arg = state
               /\ Len(UCalls("validateAuthState")) = 1
               /\ Len(UCalls("handleOpenRouterCallback")) = 0
               /\ first.result = "false" =>
                      /\ Len(UCalls("handleAuthCallback")) = 0
                      /\ Len(UCalls("showErrorMessage")) = 1
                      /\ Len(uout.calls) = 2
               /\ first.result = "rejected" => Len(uout.calls) = 1
               /\ (first.result = "true" /\ Truthy(authToken)) =>
                      /\ Len(uout.calls) = 2
                      /\ uout.calls[2].op = "handleAuthCallback"
                      /\ uout.calls[2].inst = uout.inst
                      /\ uout.calls[2].arg = authToken
               /\ (first.result = "true" /\ ~Truthy(authToken)) => Len(uout.calls) = 1

\* a valid callback handled to its end on the tab, while the sidebar became visible
C14_Witness ==
    /\ Returned /\ uout.uri.path = "/auth"
    /\ uout.calls = << UCall("validateAuthState", "tab", "s1", "true"),
                       UCall("handleAuthCallback", "tab", "T", "resolved") >>
    /\ visible = "sidebar"

\* C15: a callback that arrives while no Session is visible does nothing,
\* whatever its path and query: handleUri returns at once, invokes no entry
\* point and shows no error.
C15_NoVisibleSession ==
    /\ \A k \in Callbacks : UInFlight(k) => uloc[k] # NoInstance
    /\ (Returned /\ ~SessionVisible) => uout.calls = <<>>

\* an /auth callback with the expected state and a token, and nobody visible
C15_Witness ==
    /\ Returned /\ ~SessionVisible
    /\ uout.uri.path = "/auth"
    /\ Get(uout.uri.query, "state") = authNonce
    /\ Truthy(Get(uout.uri.query, "token"))

\* C16: the router dispatches by path alone: on /openrouter the code exchange
\* is invoked exactly once with the code if the code is non-empty and not at
\* all otherwise, and nothing else is invoked; on a path other than
\* /openrouter and /auth nothing is invoked.
C16_DispatchByPath ==
    /\ \A k \in Callbacks :
           /\ upc[k] = "openrouter" => (uri[k].path = "/openrouter" /\ ucalls[k] = <<>>)
           /\ upc[k] \in {"validate", "auth"} => uri[k].path = "/auth"
    /\ (Returned /\ SessionVisible /\ uout.uri.path = "/openrouter") =>
           LET code == Get(uout.uri.query, "code")
           IN  IF Truthy(code)
               THEN /\ Len(uout.calls) = 1
                    /\ uout.calls[1].op = "handleOpenRouterCallback"
                    /\ uout.calls[1].inst = uout.inst
                    /\ uout.calls[1].arg = code
               ELSE uout.calls = <<>>
    /\ (Returned /\ SessionVisible /\ uout.uri.path \notin {"/openrouter", "/auth"}) =>
           uout.calls = <<>>

\* /openrouter with a code, a token and the expected state: only the code is used
C16_Witness ==
    /\ Returned /\ uout.uri.path = "/openrouter"
    /\ Get(uout.uri.query, "token") = "T"
    /\ Get(uout.uri.query, "state") = authNonce
    /\ uout.calls = << UCall("handleOpenRouterCallback", "sidebar", "c1", "resolved") >>

(***************************************************************************)
(* Properties of the listener, continued                                   *)
(***************************************************************************)
\* the handler of c is suspended at an await
InFlight(c) == pc[c] \notin {"new", "done"}
\* a response is written only by a handler that has not answered yet, and an
\* answered connection stays answered
AnsweredOnce ==
    [][\A c \in Conns : /\ out'.conn = c => (pc[c] # "done" /\ pc'[c] = "done")
                        /\ pc[c] = "done" => pc'[c] = "done"
                        /\ (pc[c] # "done" /\ pc'[c] = "done") => out'.conn = c]_vars

\* C17 as stated: every accepted request is eventually answered, assuming only
\* that the awaited Session operations settle.
C17_EveryRequestAnswered ==
    \A c \in Conns : InFlight(c) ~> (pc[c] = "done")

\* C17: every accepted request that is not waiting for its body is eventually
\* answered, assuming the awaited Session operations settle, and no request is
\* answered twice; a POST /v1/messages request is answered once its body has
\* ended or failed.
C17_AnsweredOnceBodyEnded ==
    /\ AnsweredOnce
    /\ \A c \in Conns : (InFlight(c) /\ pc[c] # "body") ~> (pc[c] = "done")

\* a message request whose body ended, answered 200 after the command settled
C17_Witness ==
    /\ Answered /\ Is("POST", "/v1/messages")
    /\ out.loc.body # NoBody
    /\ Len(Calls("executeCommand")) = 1
    /\ Status = 200
    /\ pc[out.conn] = "done"

\* C18: only a request that carries the configured token, and is not an
\* OPTIONS request, has a handler suspended at an await or has caused a call
\* on a Session; a request answered 204, 415 or 401 has caused none.
C18_NoEffectWithoutToken ==
    /\ \A c \in Conns : InFlight(c) =>
           /\ req[c].tok = token /\ req[c].method # "OPTIONS"
           /\ req[c].method = "POST" => IsJsonContentType(req[c].ct)
    /\ \A c \in Conns : ~InFlight(c) => ops[c] = <<>>
    /\ (Answered /\ out.ops # <<>>) => PassesPreconditions
    /\ (Answered /\ Status \in {204, 415, 401}) => out.ops = <<>>

\* a mode request with a wrong token is answered 401 with no call made, while
\* a mode request with the token is about to write the settings
C18_Witness ==
    /\ Answered /\ Is("POST", "/v1/mode/act") /\ out.req.tok = "wrong"
    /\ Status = 401 /\ out.ops = <<>>
    /\ \E c \in Conns : pc[c] = "update" /\ req[c].tok = token

ModeUrls == {"/v1/mode/plan", "/v1/mode/act"}
\* a mode request that passed the preconditions is answered with the last step
ModeAnswered == Answered /\ out.req.method = "POST" /\ out.req.url \in ModeUrls /\ PassesPreconditions
\* the settings writes of the answered request that took effect
Written == SelectSeq(out.ops, LAMBDA o : o.op = "updateGlobalState" /\ o.ok)

Writes(c) == pc[c] = "update" /\ pc'[c] = "post"

\* C20: a mode request answered with an error has made no write that changed
\* the settings it read, and the write of a mode request leaves every field
\* other than mode with the value persisted just before the write.
C20_SettingsConsistent ==
    /\ [](ModeAnswered /\ Status \in {503, 500}
              => (Len(Written) = 0 \/ Written[1].arg = out.loc.chatSettings))
    /\ [][\A c \in Conns : Writes(c) => chatSettings'.extra = chatSettings.extra]_vars

====
